---- MODULE Spec2Model ----
(***************************************************************************)
(* A model of mkapi/core/node.py: entity classification (get_kind), member *)
(* filtering and ordering (filter, get_members), tree building with        *)
(* constructor-docstring promotion (walk), name resolution (get_object)    *)
(* and the memoised entry point (get_node, under functools.lru_cache).     *)
(*                                                                         *)
(* Python strings that the code takes apart (startswith, endswith, split,  *)
(* join, ordering) are sequences of character codes.  Kind names, which    *)
(* the code only compares for equality, are TLA+ strings.                  *)
(***************************************************************************)
EXTENDS Integers, Sequences, FiniteSets, TLC

VARIABLES world, cache, heap, hits, misses, call, result, budget, subject, kindof

vars == <<world, cache, heap, hits, misses, call, result, budget, subject, kindof>>

(***************************************************************************)
(* Strings                                                                 *)
(***************************************************************************)
DOT == 46

UNDERSCORE == 95

s_init == <<95, 95, 105, 110, 105, 116, 95, 95>>

s_init_py == <<95, 95, 105, 110, 105, 116, 95, 95, 46, 112, 121>>

s_Initialize_self == <<73, 110, 105, 116, 105, 97, 108, 105, 122, 101, 32, 115, 101, 108, 102>>

s_main == <<95, 95, 109, 97, 105, 110, 95, 95>>

s_m_py == <<109, 46, 112, 121>>

s_a_py == <<97, 46, 112, 121>>

s_z_py == <<122, 46, 112, 121>>

s_Doc == <<68, 111, 99, 32>>

s_a == <<97>>

s_z == <<122>>

s_A == <<65>>

s_AB == <<65, 66>>

s_B == <<66>>

s_f == <<102>>

s_g == <<103>>

s_h == <<104>>

s_m == <<109>>

s_q == <<113>>

s_r == <<114>>

s_s == <<115>>

s_x == <<120>>

s_p == <<95, 112>>

s_object == <<111, 98, 106, 101, 99, 116>>

s_j == <<106>>

s_str == <<115, 116, 114>>

s_builtins == <<98, 117, 105, 108, 116, 105, 110, 115>>

s_dunder_dict == <<95, 95, 100, 105, 99, 116, 95, 95>>

s_dunder_builtins == <<95, 95, 98, 117, 105, 108, 116, 105, 110, 115, 95, 95>>

s_dunder_globals == <<95, 95, 103, 108, 111, 98, 97, 108, 115, 95, 95>>

s_name == <<110, 97, 109, 101>>

s_max_depth == <<109, 97, 120, 95, 100, 101, 112, 116, 104>>

s_headless == <<104, 101, 97, 100, 108, 101, 115, 115>>

s_s_py == <<115, 46, 112, 121>>

\* Python's None where the code expects a str: equal to no string, and falsy
None == <<-1>>

\* str.startswith
startswith(s, p) == Len(p) <= Len(s) /\ SubSeq(s, 1, Len(p)) = p

\* str.endswith
endswith(s, p) == Len(p) <= Len(s) /\ SubSeq(s, Len(s) - Len(p) + 1, Len(s)) = p

\* "." in s
HasDot(s) == \E i \in 1..Len(s) : s[i] = DOT

\* Python's ordering of str: lexicographic on the code points
RECURSIVE StrLess(_, _)
StrLess(a, b) ==
  IF b = <<>> THEN FALSE
  ELSE IF a = <<>> THEN TRUE
  ELSE IF Head(a) # Head(b) THEN Head(a) < Head(b)
  ELSE StrLess(Tail(a), Tail(b))

\* ".".join(parts)
RECURSIVE join(_)
join(parts) ==
  IF parts = <<>> THEN <<>>
  ELSE IF Len(parts) = 1 THEN parts[1]
  ELSE parts[1] \o <<DOT>> \o join(Tail(parts))

\* s.split(".")
RECURSIVE split(_)
split(s) ==
  IF ~HasDot(s) THEN <<s>>
  ELSE LET i == CHOOSE j \in 1..Len(s) : s[j] = DOT /\ \A l \in 1..(j - 1) : s[l] # DOT
       IN <<SubSeq(s, 1, i - 1)>> \o split(SubSeq(s, i + 1, Len(s)))

\* s.rpartition("."), for an s that holds a dot: <<before the last dot, after it>>
rpartition(s) ==
  LET i == CHOOSE j \in 1..Len(s) : s[j] = DOT /\ \A l \in (j + 1)..Len(s) : s[l] # DOT
  IN <<SubSeq(s, 1, i - 1), SubSeq(s, i + 1, Len(s))>>

(***************************************************************************)
(* Outcomes.  A function of the code either returns a value or is left by  *)
(* an exception, which its caller does not catch unless said otherwise.    *)
(***************************************************************************)
Return(val) == [val |-> val, exc |-> ""]

Raising(exc) == [val |-> <<>>, exc |-> exc]

\* x in seq
Has(seq, x) == \E i \in 1..Len(seq) : seq[i] = x

(***************************************************************************)
(* Entities.  An entity is what the interpreter's introspection reports    *)
(* about a live object: the answers of hasattr / isinstance / inspect.     *)
(* world.inspect holds the names x for which the interpreter's inspect     *)
(* module has a predicate is<x>, in the order of dir(inspect).             *)
(***************************************************************************)
\* Python's None for a docstring; falsy
NoDocstring == [sections |-> <<>>, type |-> <<>>]

\* a parsed docstring with one section
Docstring(markdown) == [sections |-> <<[markdown |-> markdown]>>, type |-> <<>>]

\* truthiness of a docstring value
Truthy(docstring) == docstring.sections # <<>>

\* what inspect.getsourcefile / inspect.getsourcelines give
Source(file, line) == [file |-> file, line |-> line, fileexc |-> FALSE, linesexc |-> FALSE]

\* inspect.getsourcefile raises TypeError (a built-in)
NoSource == [file |-> <<>>, line |-> 0, fileexc |-> TRUE, linesexc |-> TRUE]

Signature(params) == [params |-> params, err |-> FALSE]

NoSignature == [params |-> <<>>, err |-> TRUE]

\* an object with no distinguishing feature (an int, say).  has_qualname and has_module
\* are hasattr(obj, "__qualname__") and hasattr(obj, "__module__"); module is
\* obj.__module__, a str or None
Plain ==
  [dataclass_fields |-> FALSE, isproperty |-> FALSE, fset |-> FALSE, fget |-> NoSource,
   hashable |-> TRUE, is |-> {}, sig |-> NoSignature, src |-> NoSource,
   has_qualname |-> FALSE, qualname |-> <<>>, has_module |-> FALSE, module |-> <<>>,
   modname |-> <<>>,
   self_is_class |-> FALSE, mro |-> <<>>, doc |-> NoDocstring, attrs |-> {}]

\* lines 10-15: the predicates of inspect by name, in the order of dir(inspect), without
\* routine, builtin and code
ISFUNCTIONS ==
  SelectSeq(world.inspect, LAMBDA name : name \notin {"routine", "builtin", "code"})

\* func(obj) of line 21 raises for some func of ISFUNCTIONS: inspect.iskeyword is the
\* __contains__ of a frozenset and raises TypeError for an unhashable object; the other
\* predicates are isinstance and attribute tests
PredicateRaises(functions, obj) == ~obj.hashable /\ Has(functions, "keyword")

\* the kinds, in ISFUNCTIONS order, for which inspect.is<kind>(obj) holds
get_kinds(obj) ==
  LET functions == ISFUNCTIONS IN
    IF PredicateRaises(functions, obj) THEN Raising("TypeError")
    ELSE Return(SelectSeq(functions, LAMBDA kind : kind \in obj.is))

\* what get_kind gives in place of a kind when get_kinds raised
RAISED == "<TypeError>"

get_kind(obj) ==
  IF obj.dataclass_fields THEN "dataclass"
  ELSE IF obj.isproperty THEN (IF obj.fset THEN "readwrite_property" ELSE "readonly_property")
  ELSE LET got == get_kinds(obj)
           kinds == got.val
       IN
    IF got.exc # "" THEN RAISED
    ELSE IF kinds = <<>> THEN ""
    ELSE IF Has(kinds, "generatorfunction") THEN "generator"
    ELSE IF Has(kinds, "function") /\ obj.sig.err THEN ""
    ELSE IF Has(kinds, "function") /\ obj.sig.params # <<>> /\ obj.sig.params[1] = "self"
      THEN "method"
    ELSE LET kind == kinds[Len(kinds)] IN
      IF kind = "module"
      THEN (IF obj.src.fileexc THEN ""
            ELSE IF obj.src.file # <<>> /\ endswith(obj.src.file, s_init_py) THEN "package"
            ELSE kind)
      ELSE kind

get_sourcefile_and_lineno(obj) ==
  LET s == IF obj.isproperty THEN obj.fget ELSE obj.src IN
    IF s.fileexc \/ s.linesexc THEN <<<<>>, -1>> ELSE <<s.file, s.line>>

\* the predicate handed to inspect.getmembers; sourcefile = <<>> when not given
filter(obj, qualname, sourcefile) ==
  IF obj.isproperty THEN Return(TRUE)
  ELSE LET kind == get_kind(obj)
           sourcefile_ == get_sourcefile_and_lineno(obj)[1]
       IN
    IF kind = RAISED THEN Raising("TypeError")
    ELSE IF kind = "" THEN Return(FALSE)
    ELSE IF sourcefile_ = <<>> \/ (sourcefile # <<>> /\ sourcefile # sourcefile_) THEN Return(FALSE)
    ELSE IF obj.has_qualname
      THEN (IF qualname = <<>> THEN Return(TRUE)
            ELSE Return(startswith(obj.qualname, qualname)))
      ELSE Return(FALSE)

(***************************************************************************)
(* Sorting.  sorted() and inspect.getmembers' sort are stable.             *)
(***************************************************************************)
\* the (sourcefile, lineno) key of get_members' sorted(): a <= b
KeyLeq(a, b) ==
  IF a.sourcefile # b.sourcefile THEN StrLess(a.sourcefile, b.sourcefile)
  ELSE a.lineno <= b.lineno

\* x put behind every element of the sorted sequence whose key is <= its own
RECURSIVE InsertByKey(_, _)
InsertByKey(sorted, x) ==
  IF sorted # <<>> /\ KeyLeq(sorted[Len(sorted)], x) THEN Append(sorted, x)
  ELSE IF sorted = <<>> THEN <<x>>
  ELSE Append(InsertByKey(SubSeq(sorted, 1, Len(sorted) - 1), x), sorted[Len(sorted)])

RECURSIVE sorted_members(_)
sorted_members(members) ==
  IF members = <<>> THEN <<>>
  ELSE InsertByKey(sorted_members(SubSeq(members, 1, Len(members) - 1)), members[Len(members)])

\* inspect.getmembers(obj): the (name, value) pairs of obj, sorted by name
RECURSIVE getmembers(_)
getmembers(pairs) ==
  IF pairs = {} THEN <<>>
  ELSE LET first == CHOOSE p \in pairs : \A q \in pairs : q = p \/ StrLess(p[1], q[1])
       IN <<first>> \o getmembers(pairs \ {first})

\* obj.__init__
init_of(id) == world.ents[(CHOOSE p \in world.ents[id].attrs : p[1] = s_init)[2]]

(***************************************************************************)
(* get_members and walk                                                    *)
(***************************************************************************)
\* the cut-off one level too deep
DepthExceededLate(depth, max_depth) == max_depth # -1 /\ depth > max_depth + 1

\* get_members, line 89: the depth cut-off
DepthExceeded(depth, max_depth) == max_depth # -1 /\ depth > max_depth

\* get_members, line 102: names that are skipped
SkippedName(name) == name # <<>> /\ name[1] = UNDERSCORE /\ name # s_init

\* every member kept
KeepMemberAlways(member) == TRUE

\* get_members, line 112: only a member with a docstring is kept
KeepMember(member) == Truthy(member.docstring)

\* get_members, lines 106-111: the constructor's docstring for a class left without one
Promoted(member, initdoc) ==
  IF member.kind \in {"class", "dataclass"} /\ ~Truthy(member.docstring)
     /\ Truthy(initdoc) /\ ~startswith(initdoc.sections[1].markdown, s_Initialize_self)
  THEN [member EXCEPT !.docstring = initdoc]
  ELSE member

\* walk, lines 127-132: the docstring of the __init__ member, for a class without one
RECURSIVE PromoteFromMembers(_, _, _)
PromoteFromMembers(kind, docstring, members) ==
  IF members = <<>> THEN docstring
  ELSE LET member == Head(members)
           d == IF kind \in {"class", "dataclass"} /\ ~Truthy(docstring)
                   /\ member.name = s_init /\ Truthy(member.docstring)
                   /\ ~startswith(member.docstring.sections[1].markdown, s_Initialize_self)
                THEN member.docstring ELSE docstring
       IN IF kind \in {"class", "dataclass"} /\ ~Truthy(docstring)
          THEN PromoteFromMembers(kind, d, Tail(members))
          ELSE docstring

\* the constructor left among the members
DropInitKept(members) == members

\* walk, line 133
DropInit(members) == SelectSeq(members, LAMBDA member : member.name # s_init)

RECURSIVE walk(_, _, _, _, _)
RECURSIVE get_members(_, _, _, _, _, _)
RECURSIVE members_loop(_, _, _, _)

\* the body of the for loop of get_members, over the pairs inspect.getmembers returned
members_loop(pairs, prefix, depth, max_depth) ==
  IF pairs = <<>> THEN Return(<<>>)
  ELSE LET name == Head(pairs)[1]
           id == Head(pairs)[2]
       IN IF SkippedName(name) THEN members_loop(Tail(pairs), prefix, depth, max_depth)
          ELSE LET walked == walk(id, prefix, name, depth, max_depth) IN
            IF walked.exc # "" THEN walked
            ELSE LET member == Promoted(walked.val, init_of(id).doc)
                     rest == members_loop(Tail(pairs), prefix, depth, max_depth)
                 IN IF rest.exc # "" THEN rest
                    ELSE IF KeepMember(member) THEN Return(<<member>> \o rest.val)
                    ELSE rest

\* inspect.getmembers(obj, func) calls func on the value of every name of dir(obj), so an
\* exception of func on any of them ends get_members
get_members(id, kind, sourcefile, prefix, depth, max_depth) ==
  IF DepthExceeded(depth, max_depth) THEN Return(<<>>)
  ELSE IF world.ents[id].isproperty THEN Return(<<>>)
  ELSE LET obj == world.ents[id]
           qualname == IF obj.has_qualname THEN obj.qualname ELSE <<>>
           file == IF kind \in {"package", "module"} THEN sourcefile ELSE <<>>
           func(o) == filter(o, qualname, file)
           named == getmembers(obj.attrs)
       IN IF \E i \in 1..Len(named) : func(world.ents[named[i][2]]).exc # ""
          THEN Raising("TypeError")
          ELSE LET pairs == SelectSeq(named, LAMBDA p : func(world.ents[p[2]]).val)
                   members == members_loop(pairs, prefix, depth, max_depth)
               IN IF members.exc # "" THEN members
                  ELSE Return(sorted_members(members.val))

walk(id, prefix, name, depth, max_depth) ==
  LET obj == world.ents[id]
      member_prefix == IF prefix # <<>> /\ prefix # None THEN join(<<prefix, name>>) ELSE name
      kind == get_kind(obj)
      sl == get_sourcefile_and_lineno(obj)
      members == get_members(id, kind, sl[1], member_prefix, depth + 1, max_depth)
  IN IF kind = RAISED THEN Raising("TypeError")
     ELSE IF members.exc # "" THEN members
     ELSE LET docstring == PromoteFromMembers(kind, obj.doc, members.val) IN
       Return([type |-> IF Truthy(docstring) THEN docstring.type ELSE <<>>,
               docstring |-> docstring, name |-> name, obj |-> id, kind |-> kind,
               sourcefile |-> sl[1], lineno |-> sl[2], members |-> DropInit(members.val),
               depth |-> depth, prefix |-> prefix, signature |-> obj.sig])

(***************************************************************************)
(* get_object and split_prefix_and_basename.  world.modules gives, for a   *)
(* dotted module name, what importlib.import_module does with it; a name   *)
(* it does not list is not found.                                          *)
(***************************************************************************)
Ok(id) == [exc |-> "", id |-> id]

Raise(exc) == [exc |-> exc, id |-> 0]

\* importlib's loading of an absolute name: the parent package is imported first and its
\* failure is the failure of the import; then the module itself is looked for
RECURSIVE find_and_load(_)
find_and_load(module_name) ==
  LET parent == IF HasDot(module_name) THEN find_and_load(rpartition(module_name)[1])
                ELSE Ok(0)
  IN IF parent.exc # "" THEN parent
     ELSE IF module_name \in DOMAIN world.modules THEN world.modules[module_name]
     ELSE Raise("ModuleNotFoundError")

\* importlib.import_module(module_name), called without a package: a name that starts
\* with a dot is a relative import (TypeError), the empty name is a ValueError
import_module(module_name) ==
  IF module_name # <<>> /\ module_name[1] = DOT THEN Raise("TypeError")
  ELSE IF module_name = <<>> THEN Raise("ValueError")
  ELSE find_and_load(module_name)

\* a shorter prefix tried after any failure of the import
FallsBackOnAnyError(imported) == imported.exc # ""

\* get_object, lines 175-176: the import failures after which a shorter prefix is tried
FallsBack(imported) == imported.exc = "ModuleNotFoundError"

\* get_object, lines 177-178: obj = getattr(obj, attr) along attrs
RECURSIVE getattr_chain(_, _)
getattr_chain(id, attrs) ==
  IF attrs = <<>> THEN Ok(id)
  ELSE IF \E p \in world.ents[id].attrs : p[1] = Head(attrs)
    THEN getattr_chain((CHOOSE p \in world.ents[id].attrs : p[1] = Head(attrs))[2], Tail(attrs))
    ELSE Raise("AttributeError")

\* get_object, lines 171-182: the loop from k down to 1
RECURSIVE get_object_from(_, _)
get_object_from(names, k) ==
  IF k = 0 THEN Raise("ValueError")
  ELSE LET imported == import_module(join(SubSeq(names, 1, k))) IN
    IF FallsBack(imported) THEN get_object_from(names, k - 1)
    ELSE IF imported.exc # "" THEN imported
    ELSE getattr_chain(imported.id, SubSeq(names, k + 1, Len(names)))

get_object(name) == get_object_from(split(name), Len(split(name)))

\* <<prefix, basename>>.  Lines 206-207 raise AttributeError for an object without
\* __module__ or without __qualname__; the join of line 212 raises TypeError when
\* __module__ is None; with a qualname that has no dot a None module is the prefix
split_prefix_and_basename(obj) ==
  IF "module" \in obj.is THEN Return(<<<<>>, obj.modname>>)
  ELSE IF ~obj.has_module THEN Raising("AttributeError")
  ELSE IF ~obj.has_qualname THEN Raising("AttributeError")
  ELSE LET module == obj.module
           qualname == obj.qualname
       IN IF ~HasDot(qualname)
          THEN Return(<<IF module = s_main THEN <<>> ELSE module, qualname>>)
          ELSE IF module = None THEN Raising("TypeError")
          ELSE LET prefix == join(<<module, rpartition(qualname)[1]>>)
               IN Return(<<IF prefix = s_main THEN <<>> ELSE prefix, rpartition(qualname)[2]>>)

(***************************************************************************)
(* get_node under functools.lru_cache(maxsize=1000).  A call is the        *)
(* positional arguments and the keyword arguments as they are written; the *)
(* cache is the sequence of its entries from the least to the most         *)
(* recently used; a Node is an object on the heap and a cache entry refers *)
(* to it.                                                                  *)
(***************************************************************************)
maxsize == 1000

\* argument values.  As dictionary keys True and 1, False and 0 are the same.
PyInt(i) == [val |-> <<i>>, tag |-> "int"]

PyBool(b) == PyInt(IF b THEN 1 ELSE 0)

PyStr(s) == [val |-> s, tag |-> "str"]

\* a string argument
ByName(name) == PyStr(name)

\* an already resolved entity as the argument
ByEntity(id) == [val |-> <<id>>, tag |-> "obj"]

\* the separator lru_cache puts between the positional and the keyword arguments
kwd_mark == [val |-> <<>>, tag |-> "mark"]

\* line 219: def get_node(name, max_depth=-1, headless=False)
PARAMETERS == <<s_name, s_max_depth, s_headless>>

\* the value the call gives to the k-th parameter: <<>> when it gives none
given(args, kwds, k) ==
  IF k <= Len(args) THEN <<args[k]>>
  ELSE IF \E i \in 1..Len(kwds) : kwds[i][1] = PARAMETERS[k]
    THEN <<kwds[CHOOSE i \in 1..Len(kwds) : kwds[i][1] = PARAMETERS[k]][2]>>
    ELSE <<>>

\* the binding of a call to the parameters of line 219.  TypeError for more than three
\* positional arguments, a keyword that is no parameter, a parameter given both ways and
\* a call without name; the values are bound as they are given.  (kwds names no keyword
\* twice: Python rejects such a call before it runs.)
bind(args, kwds) ==
  IF Len(args) > Len(PARAMETERS) THEN Raising("TypeError")
  ELSE IF \E i \in 1..Len(kwds) : ~Has(PARAMETERS, kwds[i][1]) THEN Raising("TypeError")
  ELSE IF \E i \in 1..Len(kwds), k \in 1..Len(args) : kwds[i][1] = PARAMETERS[k]
    THEN Raising("TypeError")
  ELSE IF given(args, kwds, 1) = <<>> THEN Raising("TypeError")
  ELSE Return([name |-> given(args, kwds, 1)[1],
               max_depth |-> IF given(args, kwds, 2) = <<>> THEN PyInt(-1)
                             ELSE given(args, kwds, 2)[1],
               headless |-> IF given(args, kwds, 3) = <<>> THEN PyBool(FALSE)
                            ELSE given(args, kwds, 3)[1]])

\* the keyword arguments flattened, in the order written
RECURSIVE items(_)
items(kwds) ==
  IF kwds = <<>> THEN <<>>
  ELSE <<PyStr(Head(kwds)[1]), Head(kwds)[2]>> \o items(Tail(kwds))

\* hash(value): an entity argument is hashed as the object it is
hashes(value) == value.tag # "obj" \/ world.ents[value.val[1]].hashable

\* the key lru_cache makes of a call: the arguments as written, defaults not filled in.
\* The key is hashed as it is made, so an unhashable argument raises TypeError before the
\* cache is looked at.  (A lone str argument is its own key, which equals no other key; it
\* is kept as a one-element key here.)
make_key(args, kwds) ==
  LET key == IF kwds = <<>> THEN args ELSE args \o <<kwd_mark>> \o items(kwds) IN
    IF \E i \in 1..Len(key) : ~hashes(key[i]) THEN Raising("TypeError")
    ELSE Return(key)

Cached(key) == \E i \in 1..Len(cache) : cache[i].key = key

EntryOf(key) == CHOOSE i \in 1..Len(cache) : cache[i].key = key

RemoveAt(seq, i) == SubSeq(seq, 1, i - 1) \o SubSeq(seq, i + 1, Len(seq))

\* the body of get_node, lines 220-227: the Node, or the exception that leaves it.  A
\* name that is no str is the object itself (an int has neither __module__ nor
\* __qualname__); a max_depth that is no int fails the comparison of line 89.
build(name, max_depth, headless) ==
  LET found == IF name.tag = "str" THEN get_object(name.val)
               ELSE IF name.tag = "obj" THEN Ok(name.val[1])
               ELSE Raise("AttributeError")
  IN
    IF found.exc # "" THEN Raising(found.exc)
    ELSE LET pb == split_prefix_and_basename(world.ents[found.id]) IN
      IF pb.exc # "" THEN pb
      ELSE IF max_depth.tag # "int" THEN Raising("TypeError")
      ELSE LET node == walk(found.id, pb.val[1], pb.val[2], 0, max_depth.val[1]) IN
        IF node.exc # "" THEN node
        ELSE Return([headless |-> headless, node |-> node.val])

\* the call of get_node's body once the key is made: binding, then the body
called(args, kwds) ==
  LET p == bind(args, kwds) IN
    IF p.exc # "" THEN p ELSE build(p.val.name, p.val.max_depth, p.val.headless)

\* a call of the cached get_node: the key is made (TypeError for an unhashable argument,
\* nothing counted); a hit returns the cached Node; a miss is counted, then the call is
\* bound and the body runs, and only a returned Node is stored
get_node(args, kwds) ==
  LET made == make_key(args, kwds)
      key == made.val
  IN
    /\ budget > 0
    /\ budget' = budget - 1
    /\ call' = <<[args |-> args, kwds |-> kwds]>>
    /\ UNCHANGED <<world, subject, kindof>>
    /\ IF made.exc # ""
       THEN /\ result' = [exc |-> made.exc, ref |-> 0]
            /\ UNCHANGED <<cache, heap, hits, misses>>
       ELSE IF Cached(key)
       THEN /\ hits' = hits + 1
            /\ cache' = Append(RemoveAt(cache, EntryOf(key)), cache[EntryOf(key)])
            /\ result' = [exc |-> "", ref |-> cache[EntryOf(key)].ref]
            /\ UNCHANGED <<heap, misses>>
       ELSE LET built == called(args, kwds) IN
            /\ misses' = misses + 1
            /\ UNCHANGED hits
            /\ IF built.exc # ""
               THEN /\ result' = [exc |-> built.exc, ref |-> 0]
                    /\ UNCHANGED <<cache, heap>>
               ELSE /\ heap' = Append(heap, built.val)
                    /\ result' = [exc |-> "", ref |-> Len(heap) + 1]
                    /\ cache' = Append(IF Len(cache) >= maxsize THEN Tail(cache) ELSE cache,
                                       [key |-> key, ref |-> Len(heap) + 1])

\* get_node.cache_clear(): the entries and the counters are dropped and None is
\* returned; Nodes already returned stay with their holders
cache_clear ==
  /\ cache' = <<>>
  /\ hits' = 0
  /\ misses' = 0
  /\ call' = <<>>
  /\ result' = [exc |-> "", ref |-> 0]
  /\ UNCHANGED <<world, heap, budget, subject, kindof>>

(***************************************************************************)
(* Interpreters: what dir(inspect) holds                                   *)
(***************************************************************************)
\* an interpreter whose inspect has iskeyword and ismethodwrapper (Python 3.11)
Inspect_3_11 ==
  <<"abstract", "asyncgen", "asyncgenfunction", "awaitable", "builtin", "class", "code",
    "coroutine", "coroutinefunction", "datadescriptor", "frame", "function", "generator",
    "generatorfunction", "getsetdescriptor", "keyword", "memberdescriptor", "method",
    "methoddescriptor", "methodwrapper", "module", "routine", "traceback">>

\* an interpreter whose inspect has neither
Inspect_older == SelectSeq(Inspect_3_11, LAMBDA x : x \notin {"keyword", "methodwrapper"})

Interpreters == {Inspect_older, Inspect_3_11}

(***************************************************************************)
(* Entities of the inputs                                                  *)
(***************************************************************************)
\* "Doc <name>": the text of a written docstring
DocOf(name) == Docstring(s_Doc \o name)

\* a docstring that opens with the words of object.__init__'s
Boilerplate == Docstring(s_Initialize_self \o <<DOT>>)

\* the entity every attrs gives for __init__ when the class defines none: object.__init__,
\* which has __qualname__ and no __module__
WRAPPER == 10

\* the dict (or mappingproxy) behind __dict__, __builtins__, __globals__: unhashable
DICT == 11

SlotWrapper ==
  [Plain EXCEPT !.is = {"methoddescriptor"}, !.has_qualname = TRUE,
                !.qualname = join(<<s_object, s_init>>), !.doc = Boilerplate]

Dict == [Plain EXCEPT !.hashable = FALSE]

Module(modname, file, doc, attrs) ==
  [Plain EXCEPT !.is = {"module"}, !.src = Source(file, 0), !.modname = modname,
                !.doc = doc, !.attrs = attrs \cup {<<s_init, WRAPPER>>, <<s_dunder_builtins, DICT>>}]

Class(module, qualname, file, line, doc, mro, attrs) ==
  [Plain EXCEPT !.is = {"class"}, !.src = Source(file, line), !.has_qualname = TRUE,
                !.qualname = qualname, !.has_module = TRUE, !.module = module,
                !.sig = Signature(<<>>),
                !.doc = doc, !.mro = mro, !.attrs = attrs \cup {<<s_dunder_dict, DICT>>}]

Function(module, qualname, file, line, params, doc) ==
  [Plain EXCEPT !.is = {"function"}, !.src = Source(file, line), !.has_qualname = TRUE,
                !.qualname = qualname, !.has_module = TRUE, !.module = module,
                !.sig = Signature(params),
                !.doc = doc, !.attrs = {<<s_init, WRAPPER>>, <<s_dunder_globals, DICT>>}]

\* the attributes of a property object and of a built-in are all hashable
Property(fset, fget, doc) ==
  [Plain EXCEPT !.isproperty = TRUE, !.fset = fset, !.fget = fget,
                !.is = {"datadescriptor"}, !.doc = doc, !.attrs = {<<s_init, WRAPPER>>}]

\* a built-in function (len): no inspect.is* of ISFUNCTIONS holds, no source, no
\* signature; its __module__ is 'builtins'
Builtin(qualname, doc) ==
  [Plain EXCEPT !.has_qualname = TRUE, !.qualname = qualname, !.has_module = TRUE,
                !.module = s_builtins, !.doc = doc, !.attrs = {<<s_init, WRAPPER>>}]

\* a method of a built-in type looked up on an instance (''.join): its __module__ is None
BuiltinMethod(qualname, doc) == [Builtin(qualname, doc) EXCEPT !.module = None]

(***************************************************************************)
(* The module m of the tree inputs, in the file m.py (or, where m is a     *)
(* package, in its __init__.py):                                           *)
(*          5: def f     10: class A    11: A.__init__    30: A.g          *)
(*         40: class A.B 41: A.B.__init__  42: A.B.h      50: def _p       *)
(* with the variants below for A's docstring and constructor, g, B and f.  *)
(***************************************************************************)
CtorVariants == {"real", "nodoc", "boiler", "wrapper", "inherited", "inhprefix"}

Ctor(file, cls, variant, line) ==
  CASE variant = "real" ->
         Function(s_m, join(<<cls, s_init>>), file, line, <<"self">>, DocOf(join(<<cls, s_init>>)))
    [] variant = "nodoc" ->
         Function(s_m, join(<<cls, s_init>>), file, line, <<"self">>, NoDocstring)
    [] variant = "boiler" ->
         Function(s_m, join(<<cls, s_init>>), file, line, <<"self">>,
                  Docstring(s_Initialize_self \o <<32>> \o cls))
    [] variant = "inherited" ->
         Function(s_z, join(<<s_B, s_init>>), s_z_py, line, <<"self">>, DocOf(join(<<s_B, s_init>>)))
    [] variant = "inhprefix" ->
         Function(s_z, join(<<s_AB, s_init>>), s_z_py, line, <<"self">>, DocOf(join(<<s_AB, s_init>>)))
    [] OTHER -> SlotWrapper

GVariants == {"method", "undoc", "prop", "propnosrc", "inh_a", "inh_z", "builtin"}

G(file, variant) ==
  CASE variant = "method" ->
         Function(s_m, join(<<s_A, s_g>>), file, 30, <<"self", "x">>, DocOf(s_g))
    [] variant = "undoc" ->
         Function(s_m, join(<<s_A, s_g>>), file, 30, <<"self">>, NoDocstring)
    [] variant = "prop" -> Property(FALSE, Source(file, 30), DocOf(s_g))
    [] variant = "propnosrc" -> Property(TRUE, NoSource, DocOf(s_g))
    [] variant = "inh_a" ->
         Function(s_a, join(<<s_AB, s_g>>), s_a_py, 7, <<"self">>, DocOf(s_g))
    [] variant = "inh_z" ->
         Function(s_z, join(<<s_AB, s_g>>), s_z_py, 7, <<"self">>, DocOf(s_g))
    [] OTHER -> Builtin(s_g, DocOf(s_g))

\* the file of A's base class AB, second in A's resolution order
BaseFile(g) == IF g = "inh_a" THEN s_a_py ELSE s_z_py

\* <<A has a docstring, the variant of A.__init__>>
AVariants ==
  ({FALSE} \X CtorVariants) \cup ({TRUE} \X {"real", "wrapper"})

\* <<dataclass, B has a docstring, the variant of B.__init__>>
BVariants ==
  {<<FALSE, FALSE, "real">>, <<FALSE, FALSE, "wrapper">>, <<FALSE, FALSE, "nodoc">>,
   <<FALSE, TRUE, "real">>, <<TRUE, FALSE, "real">>, <<TRUE, TRUE, "wrapper">>}

FVariants == {"function", "foreign"}

F(file, variant) ==
  CASE variant = "function" -> Function(s_m, s_f, file, 5, <<"x">>, DocOf(s_f))
    [] OTHER -> Function(s_a, s_f, s_a_py, 5, <<"x">>, DocOf(s_f))

\* the entities of m, whose source file is file, and of what m defines
TreeEnts(file, a, g, b, h, f) ==
  LET AB == join(<<s_A, s_B>>) IN
  [id \in 1..DICT |->
    CASE id = 1 -> Module(s_m, file, DocOf(s_m), {<<s_A, 2>>, <<s_f, 8>>, <<s_p, 9>>})
      [] id = 2 -> Class(s_m, s_A, file, 10, IF a[1] THEN DocOf(s_A) ELSE NoDocstring,
                         <<file, BaseFile(g)>>,
                         {<<s_init, IF a[2] = "wrapper" THEN WRAPPER ELSE 3>>,
                          <<s_g, 4>>, <<s_B, 5>>})
      [] id = 3 -> Ctor(file, s_A, a[2], 11)
      [] id = 4 -> G(file, g)
      [] id = 5 -> [Class(s_m, AB, file, 40, IF b[2] THEN DocOf(AB) ELSE NoDocstring,
                          <<file>>,
                          {<<s_init, IF b[3] = "wrapper" THEN WRAPPER ELSE 6>>, <<s_h, 7>>})
                    EXCEPT !.dataclass_fields = b[1]]
      [] id = 6 -> Ctor(file, AB, b[3], 41)
      [] id = 7 -> Function(s_m, join(<<AB, s_h>>), file, 42, <<"self">>,
                            IF h THEN DocOf(s_h) ELSE NoDocstring)
      [] id = 8 -> F(file, f)
      [] id = 9 -> Function(s_m, s_p, file, 50, <<>>, DocOf(s_p))
      [] id = WRAPPER -> SlotWrapper
      [] OTHER -> Dict]

\* every variant on the interpreter that builds trees; on the other one, where a call
\* that reaches inspect.getmembers of m, A, B or f raises, the variants of A, g and B
TreeWorlds ==
  {[inspect |-> Inspect_older, ents |-> TreeEnts(s_m_py, a, g, b, h, f),
    modules |-> (s_m :> Ok(1))] :
     a \in AVariants, g \in GVariants, b \in BVariants, h \in BOOLEAN, f \in FVariants}
  \cup
  {[inspect |-> Inspect_3_11, ents |-> TreeEnts(s_m_py, a, g, b, TRUE, "function"),
    modules |-> (s_m :> Ok(1))] :
     a \in AVariants, g \in GVariants, b \in BVariants}

\* the deepest max_depth given to get_node
MaxDepth == 2

Depths == -1..MaxDepth

TreeRoots == {ByName(s_m), ByName(join(<<s_m, s_A>>)), ByEntity(5), ByEntity(4)}

(***************************************************************************)
(* The ways a call is written                                              *)
(***************************************************************************)
\* get_node(name, max_depth, headless)
Positional(name, max_depth, headless) ==
  [args |-> <<name, PyInt(max_depth), PyBool(headless)>>, kwds |-> <<>>]

\* get_node(name), get_node(name, max_depth): arguments equal to the defaults left out
Shortest(name, max_depth, headless) ==
  [args |-> IF headless THEN <<name, PyInt(max_depth), PyBool(headless)>>
            ELSE IF max_depth # -1 THEN <<name, PyInt(max_depth)>>
            ELSE <<name>>,
   kwds |-> <<>>]

\* get_node(name, max_depth=..., headless=...)
Keywords(name, max_depth, headless) ==
  [args |-> <<name>>,
   kwds |-> <<<<s_max_depth, PyInt(max_depth)>>, <<s_headless, PyBool(headless)>>>>]

\* get_node(name=..., max_depth=..., headless=...)
Named(name, max_depth, headless) ==
  [args |-> <<>>,
   kwds |-> <<<<s_name, name>>, <<s_max_depth, PyInt(max_depth)>>,
              <<s_headless, PyBool(headless)>>>>]

CallForms(name, max_depth, headless) ==
  {Positional(name, max_depth, headless), Shortest(name, max_depth, headless),
   Keywords(name, max_depth, headless), Named(name, max_depth, headless)}

(***************************************************************************)
(* Specification: one get_node call on a tree input                        *)
(***************************************************************************)
NoSubject == Plain

InitCommon ==
  /\ cache = <<>>
  /\ heap = <<>>
  /\ hits = 0
  /\ misses = 0
  /\ call = <<>>
  /\ result = [exc |-> "", ref |-> 0]

Init ==
  /\ InitCommon
  /\ world \in TreeWorlds
  /\ budget = 1
  /\ subject = NoSubject
  /\ kindof = "?"

GetNode == \E name \in TreeRoots, max_depth \in Depths :
  LET c == Positional(name, max_depth, FALSE) IN get_node(c.args, c.kwds)

Next == GetNode

Spec == Init /\ [][Next]_vars

(***************************************************************************)
(* SpecResolve: one get_node call by name, over what the imports do.       *)
(* m is a package (m/__init__.py) with the submodule m.s (s.py, 12), which *)
(* holds the function m.s.f (13) and j = ''.join (14); importing m or m.s  *)
(* succeeds, raises ImportError, or the module does not exist.             *)
(***************************************************************************)
ImportOutcomes == {"ok", "ImportError", "ModuleNotFoundError"}

Imported(outcome, id) == IF outcome = "ok" THEN Ok(id) ELSE Raise(outcome)

JOIN == 14

ResolveEnts(m_s) ==
  LET base == TreeEnts(s_init_py, <<FALSE, "real">>, "method", <<FALSE, TRUE, "real">>, TRUE,
                       "function")
  IN
  [id \in 1..JOIN |->
    CASE id = 1 -> [base[1] EXCEPT !.attrs = @ \cup (IF m_s = "ok" THEN {<<s_s, 12>>} ELSE {})]
      [] id = 12 -> Module(join(<<s_m, s_s>>), s_s_py, DocOf(s_s), {<<s_f, 13>>, <<s_j, JOIN>>})
      [] id = 13 -> Function(join(<<s_m, s_s>>), s_f, s_s_py, 3, <<>>, DocOf(s_f))
      [] id = JOIN -> BuiltinMethod(join(<<s_str, s_j>>), DocOf(s_j))
      [] OTHER -> base[id]]

ResolveWorlds ==
  {[inspect |-> inspect, ents |-> ResolveEnts(m_s),
    modules |-> (s_m :> Imported(m, 1)) @@ (join(<<s_m, s_s>>) :> Imported(m_s, 12))] :
     m \in ImportOutcomes, m_s \in ImportOutcomes, inspect \in Interpreters}

\* '', '.x' and 'm.' among them, and the names of two objects get_node makes no Node
\* of: m.s.__init__ (without __module__) and m.s.j (its __module__ is None)
ResolveNames ==
  {join(parts) : parts \in
     {<<s_m>>, <<s_m, s_s>>, <<s_m, s_s, s_f>>, <<s_m, s_s, s_x>>, <<s_m, s_A>>,
      <<s_m, s_A, s_g>>, <<s_m, s_A, s_x>>, <<s_m, s_x>>, <<s_m, s_x, s_g>>,
      <<s_q>>, <<s_q, s_r>>, <<s_m, s_A, s_B, s_h>>, <<<<>>>>, <<<<>>, s_x>>, <<s_m, <<>>>>,
      <<s_m, s_s, s_init>>, <<s_m, s_s, s_j>>}}

InitResolve ==
  /\ InitCommon
  /\ world \in ResolveWorlds
  /\ budget = 1
  /\ subject = NoSubject
  /\ kindof = "?"

GetNodeByName == \E name \in ResolveNames, max_depth \in {-1, 0} :
  LET c == Positional(ByName(name), max_depth, FALSE) IN get_node(c.args, c.kwds)

NextResolve == GetNodeByName

SpecResolve == InitResolve /\ [][NextResolve]_vars

(***************************************************************************)
(* SpecCache: a run of get_node calls, written in several ways, and of     *)
(* cache_clear against one program                                         *)
(***************************************************************************)
\* the number of get_node calls of a run
MaxCalls == 3

CacheWorlds ==
  {[inspect |-> inspect, ents |-> ResolveEnts("ok"),
    modules |-> (s_m :> Ok(1)) @@ (join(<<s_m, s_s>>) :> Ok(12))] : inspect \in Interpreters}

\* m.A by name and as the class, a name that is not found, and A.__dict__
CacheArgs == {ByName(join(<<s_m, s_A>>)), ByEntity(2), ByName(join(<<s_q, s_r>>)), ByEntity(DICT)}

InitCache ==
  /\ InitCommon
  /\ world \in CacheWorlds
  /\ budget = MaxCalls
  /\ subject = NoSubject
  /\ kindof = "?"

\* <<max_depth, headless>> of the calls
CacheParams == {<<-1, FALSE>>, <<0, TRUE>>}

GetNodeAgain == \E name \in CacheArgs, p \in CacheParams :
  \E c \in CallForms(name, p[1], p[2]) : get_node(c.args, c.kwds)

CacheClear == cache_clear

NextCache == GetNodeAgain \/ CacheClear

SpecCache == InitCache /\ [][NextCache]_vars

(***************************************************************************)
(* SpecKind: get_kind on the shapes of entity                              *)
(***************************************************************************)
FunctionShapes ==
  {[Function(s_m, qualname, s_m_py, 3, <<>>, NoDocstring) EXCEPT !.is = is, !.sig = sig] :
     is \in {{"function"}, {"function", "generatorfunction"}, {"coroutinefunction", "function"},
             {"asyncgenfunction", "function"}},
     sig \in {NoSignature, Signature(<<>>), Signature(<<"self">>), Signature(<<"self", "x">>),
              Signature(<<"x">>), Signature(<<"cls">>)},
     qualname \in {s_f, join(<<s_A, s_g>>)}}

ClassShapes ==
  {[Class(s_m, s_A, s_m_py, 3, NoDocstring, <<s_m_py>>, {}) EXCEPT
      !.is = is, !.dataclass_fields = dc] :
     is \in {{"class"}, {"abstract", "class"}}, dc \in BOOLEAN}

\* a method looked up on its class (classmethod) or on an instance
BoundMethodShapes ==
  {[Function(s_m, join(<<s_A, s_g>>), s_m_py, 3, params, NoDocstring) EXCEPT
      !.is = is, !.self_is_class = TRUE] :
     is \in {{"method"}, {"method", "generatorfunction"}}, params \in {<<>>, <<"x">>}}

ModuleShapes ==
  {Module(s_m, s_m_py, NoDocstring, {}), Module(s_m, s_init_py, NoDocstring, {}),
   Module(s_m, <<>>, NoDocstring, {}),
   [Module(s_m, <<>>, NoDocstring, {}) EXCEPT !.src = NoSource]}

OtherShapes ==
  {Property(FALSE, Source(s_m_py, 3), NoDocstring), Property(TRUE, Source(s_m_py, 3), NoDocstring),
   Property(FALSE, NoSource, NoDocstring),
   Builtin(s_f, NoDocstring), SlotWrapper, Plain,
   [Plain EXCEPT !.is = {"methodwrapper"}],
   [Plain EXCEPT !.is = {"generator"}],
   [Plain EXCEPT !.is = {"keyword"}],
   [Plain EXCEPT !.is = {"datadescriptor", "getsetdescriptor"}],
   [Plain EXCEPT !.hashable = FALSE],
   [Plain EXCEPT !.hashable = FALSE, !.dataclass_fields = TRUE]}

Shapes == FunctionShapes \cup ClassShapes \cup BoundMethodShapes \cup ModuleShapes \cup OtherShapes

InitKind ==
  /\ InitCommon
  /\ world \in {[inspect |-> inspect, ents |-> <<>>, modules |-> <<>>] :
                  inspect \in Interpreters}
  /\ budget = 0
  /\ subject \in Shapes
  /\ kindof = "?"

Classify ==
  /\ kindof = "?"
  /\ kindof' = get_kind(subject)
  /\ UNCHANGED <<world, cache, heap, hits, misses, call, result, budget, subject>>

NextKind == Classify

SpecKind == InitKind /\ [][NextKind]_vars

(***************************************************************************)
(* Notions the properties are stated in                                    *)
(***************************************************************************)
\* the last call returned a Node
Returned == result.exc = "" /\ result.ref # 0

\* the Node it returned
Root == heap[result.ref].node

\* the parameters of the last call, which bound
Args == bind(call[1].args, call[1].kwds).val

\* the max_depth of the last call
Limit == Args.max_depth.val[1]

\* a Node and all its descendants through members
RECURSIVE NodesOf(_)
NodesOf(n) == {n} \cup UNION {NodesOf(n.members[i]) : i \in 1..Len(n.members)}

\* the constructor's docstring is one that may be promoted
Promotable(initdoc) ==
  Truthy(initdoc) /\ ~startswith(initdoc.sections[1].markdown, s_Initialize_self)

\* the filter returns True for obj
Passes(obj, qualname, sourcefile) ==
  LET passed == filter(obj, qualname, sourcefile) IN passed.exc = "" /\ passed.val

\* the attributes of n's entity that pass the filter and the name test, the constructor apart
Candidates(n) ==
  LET o == world.ents[n.obj]
      qualname == IF o.has_qualname THEN o.qualname ELSE <<>>
      file == IF n.kind \in {"package", "module"} THEN n.sourcefile ELSE <<>>
  IN IF o.isproperty THEN {}
     ELSE {p \in o.attrs : /\ Passes(world.ents[p[2]], qualname, file)
                           /\ ~(p[1][1] = UNDERSCORE)}

\* the candidate ends with a docstring: its own, or its constructor's promoted
EndsDocumented(id) ==
  \/ Truthy(world.ents[id].doc)
  \/ /\ get_kind(world.ents[id]) \in {"class", "dataclass"}
     /\ Promotable(init_of(id).doc)

Documented(n) == {p \in Candidates(n) : EndsDocumented(p[2])}

\* n's members were not cut off by the depth limit of the call
Uncut(n) == Limit = -1 \/ n.depth < Limit

\* C1. Constructor exclusion: in the tree get_node returns, no Node's members holds an
\* entry named __init__, whatever became of the constructor's docstring.
ConstructorExcluded ==
  Returned => \A n \in NodesOf(Root) : \A i \in 1..Len(n.members) : n.members[i].name # s_init

\* a Node whose documented constructor passed the filter and was built as a member
ConstructorWasBuilt ==
  /\ Returned
  /\ \E n \in NodesOf(Root) :
       /\ Uncut(n)
       /\ n.members # <<>>
       /\ \E p \in world.ents[n.obj].attrs :
            /\ p[1] = s_init
            /\ Passes(world.ents[p[2]], world.ents[n.obj].qualname, <<>>)
            /\ Truthy(world.ents[p[2]].doc)

\* C3. Undocumented-member dropping: every Node in a members sequence has a docstring,
\* and where the depth limit does not cut, members has as many entries as there are
\* non-constructor candidates that end with a docstring.
UndocumentedDropped ==
  Returned =>
    \A n \in NodesOf(Root) :
      /\ \A i \in 1..Len(n.members) : Truthy(n.members[i].docstring)
      /\ Uncut(n) => Len(n.members) = Cardinality(Documented(n))
      /\ Uncut(n) => \A p \in Documented(n) : \E i \in 1..Len(n.members) : n.members[i].obj = p[2]

\* a Node that kept a documented candidate and dropped an undocumented one
SomeCandidateDropped ==
  /\ Returned
  /\ \E n \in NodesOf(Root) :
       /\ Uncut(n)
       /\ n.members # <<>>
       /\ \E p \in Candidates(n) : ~EndsDocumented(p[2])

\* C4. Depth limiting: the root is at depth 0 and a member one below its parent; with
\* max_depth = d >= 0 no Node is deeper than d and a Node at depth d has no members;
\* with max_depth = -1 every documented candidate is a member.
DepthLimited ==
  Returned =>
    /\ Root.depth = 0
    /\ \A n \in NodesOf(Root) :
         /\ \A i \in 1..Len(n.members) : n.members[i].depth = n.depth + 1
         /\ Limit >= 0 =>
              /\ n.depth <= Limit
              /\ n.depth = Limit => n.members = <<>>
         /\ Limit = -1 => Len(n.members) = Cardinality(Documented(n))

\* a call with max_depth = 1 whose members have documented candidates of their own
GrandchildrenCut ==
  /\ Returned
  /\ Limit = 1
  /\ Root.members # <<>>
  /\ \E n \in NodesOf(Root) : n.depth = 1 /\ Documented(n) # {} /\ n.members = <<>>

\* C2. Promotion gating: a class or dataclass Node without a docstring of its own has
\* the constructor's docstring exactly when that docstring exists and does not start
\* with "Initialize self", and none otherwise; any other Node keeps its own docstring.
PromotionGated ==
  Returned =>
    \A n \in NodesOf(Root) :
      LET own == world.ents[n.obj].doc
          initdoc == init_of(n.obj).doc
      IN IF n.kind \in {"class", "dataclass"} /\ ~Truthy(own)
         THEN n.docstring = IF Promotable(initdoc) THEN initdoc ELSE NoDocstring
         ELSE n.docstring = own

\* the build of the same root without a depth limit
Unlimited == walk(Root.obj, Root.prefix, Root.name, 0, -1)

\* t, built under the depth limit d, has the docstrings and, above the cut, the members
\* of u, built without one
RECURSIVE SameAbove(_, _, _)
SameAbove(t, u, d) ==
  /\ t.docstring = u.docstring
  /\ IF d # -1 /\ t.depth >= d THEN t.members = <<>>
     ELSE /\ Len(t.members) = Len(u.members)
          /\ \A i \in 1..Len(t.members) : SameAbove(t.members[i], u.members[i], d)

\* C10. Promotion survives depth truncation: in a tree built with any max_depth, a class
\* or dataclass Node without a docstring of its own whose constructor has a docstring
\* that may be promoted has that docstring, the root at max_depth = 0 included; and
\* where the build without a depth limit returns, every Node has the docstring it has
\* there, so a class documented only by its constructor stays a member.
PromotionSurvivesTruncation ==
  Returned =>
    /\ \A n \in NodesOf(Root) :
         (/\ n.kind \in {"class", "dataclass"}
          /\ ~Truthy(world.ents[n.obj].doc)
          /\ Promotable(init_of(n.obj).doc)) => n.docstring = init_of(n.obj).doc
    /\ Unlimited.exc = "" => SameAbove(Root, Unlimited.val, Limit)

\* the position of the member's source file in the resolution order of n's entity;
\* 0 where there is no such order
OriginIndex(n, member) ==
  LET mro == world.ents[n.obj].mro IN
    IF \E k \in 1..Len(mro) : mro[k] = member.sourcefile
    THEN (CHOOSE k \in 1..Len(mro) :
            mro[k] = member.sourcefile /\ \A l \in 1..(k - 1) : mro[l] # member.sourcefile) - 1
    ELSE 0

\* C8. Member ordering: members is ordered by descending origin index and, within one
\* origin index, by ascending source line.
MembersOrderedByOrigin ==
  Returned =>
    \A n \in NodesOf(Root) : \A i, j \in 1..Len(n.members) :
      i < j =>
        LET oi == OriginIndex(n, n.members[i])
            oj == OriginIndex(n, n.members[j])
        IN oi > oj \/ (oi = oj /\ n.members[i].lineno <= n.members[j].lineno)

\* C9. Member exclusion: no member has kind "" or an undeterminable source file (a
\* property judged by its getter), and a member of a module or package lies in the
\* source file of that module or package.
MembersClassifiedAndSourced ==
  Returned =>
    \A n \in NodesOf(Root) : \A i \in 1..Len(n.members) :
      LET child == world.ents[n.members[i].obj] IN
        /\ get_kind(child) # ""
        /\ get_sourcefile_and_lineno(child)[1] # <<>>
        /\ n.kind \in {"module", "package"} =>
             get_sourcefile_and_lineno(child)[1] = n.sourcefile

\* the import of the first k components of the called name
Attempt(k) == import_module(join(SubSeq(split(Args.name.val), 1, k)))

\* the prefixes whose import does not end in module-not-found
Importable == {k \in 1..Len(split(Args.name.val)) : Attempt(k).exc # "ModuleNotFoundError"}

Longest == CHOOSE k \in Importable : \A l \in Importable : l <= k

\* C6. Entity not found: the longest prefix whose import does not fail with
\* module-not-found decides the call.  With no such prefix, with that import failing
\* otherwise, or with an attribute after it missing, the call raises and leaves no Node
\* behind; otherwise the call ends as a call with the entity the attributes lead to
\* ends, and a Node that is returned is the Node of that entity.
NotFoundRaises ==
  call # <<>> =>
    /\ result.exc # "" => result.ref = 0 /\ heap = <<>> /\ cache = <<>>
    /\ IF Importable = {} THEN result.exc = "ValueError"
       ELSE IF Attempt(Longest).exc # "" THEN result.exc = Attempt(Longest).exc
       ELSE LET names == split(Args.name.val)
                found == getattr_chain(Attempt(Longest).id,
                                       SubSeq(names, Longest + 1, Len(names)))
            IN IF found.exc # "" THEN result.exc = "AttributeError"
               ELSE /\ result.exc = build(ByEntity(found.id), Args.max_depth, Args.headless).exc
                    /\ Returned => Root.obj = found.id

\* a name whose longer prefix is no module and whose attribute does not exist
FellBackAndFailed ==
  /\ call # <<>>
  /\ result.exc = "AttributeError"
  /\ Importable # {}
  /\ Longest < Len(split(Args.name.val))
  /\ Attempt(Len(split(Args.name.val))).exc = "ModuleNotFoundError"

\* the parameters the call that made the cache key bound: the positional arguments up
\* to the separator, the keyword arguments behind it
ParamsOf(key) ==
  LET marks == {i \in 1..Len(key) : key[i] = kwd_mark}
      n == IF marks = {} THEN Len(key) ELSE (CHOOSE i \in marks : TRUE) - 1
      kwds == [j \in 1..((Len(key) - n) \div 2) |-> <<key[n + 2 * j].val, key[n + 2 * j + 1]>>]
  IN bind(SubSeq(key, 1, n), kwds).val

\* C5. Cache correctness: every cached Node is structurally the Node a build with the
\* parameters of its call gives; no name (or entity), max_depth and headless is built a
\* second time while its entry is in the cache; distinct entries hold distinct Nodes;
\* and a call returns the Node cached for its own parameters.
CacheCorrect ==
  /\ \A i \in 1..Len(cache) :
       LET p == ParamsOf(cache[i].key)
           b == build(p.name, p.max_depth, p.headless)
       IN b.exc = "" /\ heap[cache[i].ref] = b.val
  /\ \A i, j \in 1..Len(cache) :
       i # j => /\ ParamsOf(cache[i].key) # ParamsOf(cache[j].key)
                /\ cache[i].ref # cache[j].ref
  /\ Returned =>
       /\ \E i \in 1..Len(cache) :
            cache[i].ref = result.ref /\ ParamsOf(cache[i].key) = Args
       /\ heap[result.ref] = build(Args.name, Args.max_depth, Args.headless).val

\* the kinds of the specification
Kinds ==
  {"module", "package", "class", "dataclass", "function", "method", "staticmethod",
   "classmethod", "generator", "readonly_property", "readwrite_property", ""}

\* the classification table of the specification, first match first
TableKind(obj) ==
  IF obj.isproperty THEN (IF obj.fset THEN "readwrite_property" ELSE "readonly_property")
  ELSE IF obj.dataclass_fields /\ obj.has_qualname THEN "dataclass"
  ELSE IF "method" \in obj.is /\ obj.self_is_class THEN "classmethod"
  ELSE IF "class" \in obj.is THEN "class"
  ELSE IF "generatorfunction" \in obj.is THEN "generator"
  ELSE IF "function" \in obj.is
    THEN (IF obj.sig.err THEN ""
          ELSE IF obj.sig.params # <<>> /\ obj.sig.params[1] = "self" THEN "method"
          ELSE IF HasDot(obj.qualname) THEN "staticmethod"
          ELSE "function")
  ELSE IF "module" \in obj.is
    THEN (IF endswith(obj.src.file, s_init_py) THEN "package" ELSE "module")
  ELSE ""

\* C7. Classifier conformance: get_kind does not raise and gives the kind of the first
\* matching rule of the table, one of the fixed kinds.
KindConforms ==
  kindof # "?" => kindof # RAISED /\ kindof \in Kinds /\ kindof = TableKind(subject)

====
